---- MODULE Spec2Model ----
(***************************************************************************)
(* Daily Life Optimizer API: the generic create/list endpoints, the meal   *)
(* suggestion heuristic and the schedule generator of src/main.py, with    *)
(* the Task schema of src/schemas.py.                                      *)
(*                                                                         *)
(* Conventions.  Text that the code lower-cases is a sequence of one-      *)
(* character strings; other text is an opaque string.  An Optional value   *)
(* is <<>> (None) or <<v>>.  An instant is a number of minutes counted     *)
(* from today's midnight; isoformat turns it into <<day, hour, minute>>.   *)
(***************************************************************************)
EXTENDS Integers, Sequences, FiniteSets, TLC

VARIABLES db, next_id, issued, resp

vars == <<db, next_id, issued, resp>>

----------------------------------------------------------------------------
(* Bounds *)

MaxDocs == 2
MaxTasks == 3
MaxRoutines == 2
MaxPantry == 6
MaxStored == 2

----------------------------------------------------------------------------
(* Python values *)

None == <<>>

Some(v) == <<v>>

\* d.get(k, default)
Get(d, k, default) == IF k \in DOMAIN d THEN d[k] ELSE default

\* (x or default) for an Optional[int] read out of a document
OrInt(x, default) == IF x = None \/ x[1] = 0 THEN default ELSE x[1]

\* (x or "") for an Optional[str] read out of a document
OrStr(x) == IF x = None THEN <<>> ELSE x[1]

UpperChars == <<"A","B","C","D","E","F","G","H","I","J","K","L","M",
                "N","O","P","Q","R","S","T","U","V","W","X","Y","Z">>

LowerChars == <<"a","b","c","d","e","f","g","h","i","j","k","l","m",
                "n","o","p","q","r","s","t","u","v","w","x","y","z">>

LowerChar(c) ==
    IF \E k \in 1..26 : UpperChars[k] = c
    THEN LowerChars[CHOOSE k \in 1..26 : UpperChars[k] = c]
    ELSE c

\* str.lower()
Lower(s) == [k \in 1..Len(s) |-> LowerChar(s[k])]

\* lexicographic "<" on sequences of integers (tuple and ISO string order)
RECURSIVE LexLess(_, _)
LexLess(a, b) ==
    IF b = <<>> THEN FALSE
    ELSE IF a = <<>> THEN TRUE
    ELSE IF Head(a) < Head(b) THEN TRUE
    ELSE IF Head(a) > Head(b) THEN FALSE
    ELSE LexLess(Tail(a), Tail(b))

\* insert a <<key, item>> pair after every pair whose key is not greater
RECURSIVE InsertKeyed(_, _)
InsertKeyed(sorted, p) ==
    IF sorted = <<>> THEN <<p>>
    ELSE IF LexLess(p[1], Head(sorted)[1]) THEN <<p>> \o sorted
    ELSE <<Head(sorted)>> \o InsertKeyed(Tail(sorted), p)

RECURSIVE SortKeyed(_)
SortKeyed(ps) ==
    IF ps = <<>> THEN <<>>
    ELSE InsertKeyed(SortKeyed(SubSeq(ps, 1, Len(ps) - 1)), ps[Len(ps)])

\* sorted(keyed items): a stable sort, ascending by key
sorted(ps) == LET s == SortKeyed(ps) IN [k \in 1..Len(s) |-> s[k][2]]

----------------------------------------------------------------------------
(* Record Schema Layer: Task *)

JInt(n) == [t |-> "int", v |-> n]

JNull == [t |-> "null", v |-> 0]

JStr(s) == [t |-> "str", v |-> s]

Invalid == [ok |-> FALSE]

\* the upper bound off by one: le=6
TaskPriority_Le6(body) ==
    IF "priority" \notin DOMAIN body THEN [ok |-> TRUE, v |-> 3]
    ELSE IF body["priority"].t # "int" THEN Invalid
    ELSE IF body["priority"].v >= 1 /\ body["priority"].v <= 6
         THEN [ok |-> TRUE, v |-> body["priority"].v]
         ELSE Invalid

\* priority: int = Field(3, ge=1, le=5)
TaskPriority(body) ==
    IF "priority" \notin DOMAIN body THEN [ok |-> TRUE, v |-> 3]
    ELSE IF body["priority"].t # "int" THEN Invalid
    ELSE IF body["priority"].v >= 1 /\ body["priority"].v <= 5
         THEN [ok |-> TRUE, v |-> body["priority"].v]
         ELSE Invalid

\* estimated_minutes: Optional[int] = Field(30, ge=5, le=600)
TaskEstimatedMinutes(body) ==
    IF "estimated_minutes" \notin DOMAIN body THEN [ok |-> TRUE, v |-> Some(30)]
    ELSE IF body["estimated_minutes"].t = "null" THEN [ok |-> TRUE, v |-> None]
    ELSE IF body["estimated_minutes"].t # "int" THEN Invalid
    ELSE IF body["estimated_minutes"].v >= 5 /\ body["estimated_minutes"].v <= 600
         THEN [ok |-> TRUE, v |-> Some(body["estimated_minutes"].v)]
         ELSE Invalid

\* title: str = Field(...)
TaskTitle(body) ==
    IF "title" \notin DOMAIN body THEN Invalid
    ELSE IF body["title"].t # "str" THEN Invalid
    ELSE [ok |-> TRUE, v |-> body["title"].v]

\* Task(**body): the validated record, or a validation failure
Task(body) ==
    LET ti == TaskTitle(body)
        pr == TaskPriority(body)
        em == TaskEstimatedMinutes(body)
    IN  IF ti.ok /\ pr.ok /\ em.ok
        THEN [ok |-> TRUE,
              item |-> [title |-> ti.v, details |-> None, priority |-> pr.v,
                        due_date |-> None, estimated_minutes |-> em.v,
                        category |-> None]]
        ELSE Invalid

----------------------------------------------------------------------------
(* Persistence Gateway *)

MODEL_TO_COLLECTION ==
    {"task", "routine", "pantryitem", "meal", "bill", "subscription",
     "shoppinglistitem", "checkin", "user"}

StorageError == "StorageError"

\* one gateway call as the handler saw it: what was called and whether it raised
Call(fn, collection, ok) == [fn |-> fn, collection |-> collection, ok |-> ok]

\* str(ObjectId)
Str(oid) == ToString(oid)

\* create_document(collection, item); fail: the database rejects the call
create_document(store, oid, collection, item, fail) ==
    IF fail THEN [ok |-> FALSE, err |-> StorageError, store |-> store,
                  call |-> Call("create_document", collection, FALSE)]
    ELSE [ok |-> TRUE, id |-> Str(oid),
          call |-> Call("create_document", collection, TRUE),
          store |-> [store EXCEPT ![collection] =
                        Append(@, [k \in DOMAIN item \cup {"_id"} |->
                                     IF k = "_id" THEN oid ELSE item[k]])]]

\* get_documents(collection, {}, limit); limit is None or <<n>>
get_documents(store, collection, limit, fail) ==
    IF fail THEN [ok |-> FALSE, err |-> StorageError,
                  call |-> Call("get_documents", collection, FALSE)]
    ELSE LET all == store[collection]
             n == IF limit = None THEN Len(all)
                  ELSE IF limit[1] < Len(all) THEN limit[1] ELSE Len(all)
         IN  [ok |-> TRUE, docs |-> SubSeq(all, 1, n),
              call |-> Call("get_documents", collection, TRUE)]

----------------------------------------------------------------------------
(* Generic create/list endpoints *)

NoTrace == <<>>

Response(op, arg, status, body, detail, calls, trace) ==
    [op |-> op, arg |-> arg, status |-> status, body |-> body,
     detail |-> detail, calls |-> calls, trace |-> trace]

\* d["id"] = str(d["_id"]): the native key is read, not popped
PopId_KeepsNative(d) ==
    IF "_id" \in DOMAIN d
    THEN [k \in DOMAIN d \cup {"id"} |-> IF k = "id" THEN Str(d["_id"]) ELSE d[k]]
    ELSE d

\* d["id"] = str(d.pop("_id"))
PopId(d) ==
    IF "_id" \in DOMAIN d
    THEN [k \in (DOMAIN d \ {"_id"}) \cup {"id"} |->
            IF k = "id" THEN Str(d["_id"]) ELSE d[k]]
    ELSE d

\* POST /api/{base_path}
create_item(collection, body, item, fail) ==
    LET r == create_document(db, next_id, collection, item, fail)
        arg == [collection |-> collection, body |-> body]
        calls == <<r.call>>
    IN  /\ IF r.ok
           THEN /\ db' = r.store
                /\ next_id' = next_id + 1
                /\ issued' = issued \cup {<<collection, r.id>>}
                /\ resp' = Response("create", arg, 200, [id |-> r.id], "",
                                    calls, NoTrace)
           ELSE /\ resp' = Response("create", arg, 500, <<>>, r.err,
                                    calls, NoTrace)
                /\ UNCHANGED <<db, next_id, issued>>

\* a handler that answers a failed read with an empty list
list_items_SwallowsError(collection, limit, fail) ==
    LET r == get_documents(db, collection, limit, fail)
        arg == [collection |-> collection, limit |-> limit]
        docs == IF r.ok THEN r.docs ELSE <<>>
    IN  /\ resp' = Response("list", arg, 200,
                             [k \in 1..Len(docs) |-> PopId(docs[k])],
                             "", <<r.call>>, NoTrace)
        /\ UNCHANGED <<db, next_id, issued>>

\* GET /api/{base_path}
list_items(collection, limit, fail) ==
    LET r == get_documents(db, collection, limit, fail)
        arg == [collection |-> collection, limit |-> limit]
        calls == <<r.call>>
    IN  /\ IF r.ok
           THEN resp' = Response("list", arg, 200,
                                 [k \in 1..Len(r.docs) |-> PopId(r.docs[k])],
                                 "", calls, NoTrace)
           ELSE resp' = Response("list", arg, 500, <<>>, r.err, calls, NoTrace)
        /\ UNCHANGED <<db, next_id, issued>>

----------------------------------------------------------------------------
(* Meal suggestions *)

W_eggs == <<"e","g","g","s">>

W_bread == <<"b","r","e","a","d">>

W_pasta == <<"p","a","s","t","a">>

W_tomato_sauce == <<"t","o","m","a","t","o"," ","s","a","u","c","e">>

W_tomatoes == <<"t","o","m","a","t","o","e","s">>

W_rice == <<"r","i","c","e">>

W_beans == <<"b","e","a","n","s">>

W_tortilla == <<"t","o","r","t","i","l","l","a">>

W_cheese == <<"c","h","e","e","s","e">>

\* the names as stored, not lower-cased
Have_CaseSensitive(pantry) == {Get(pantry[k], "name", <<>>) : k \in 1..Len(pantry)}

\* have = {p.get("name", "").lower() for p in pantry}
Have(pantry) == {Lower(Get(pantry[k], "name", <<>>)) : k \in 1..Len(pantry)}

\* has(items) = all(i in have for i in items)
has(have, items) == \A i \in items : i \in have

EggToast ==
    [title |-> "Egg toast", ingredients |-> <<"eggs", "bread", "butter">>,
     steps |-> <<"Toast bread", "Scramble eggs", "Combine and season">>,
     tags |-> <<"quick", "breakfast">>]

SimplePasta ==
    [title |-> "Simple pasta",
     ingredients |-> <<"pasta", "tomato sauce", "olive oil">>,
     steps |-> <<"Boil pasta", "Heat sauce", "Combine">>,
     tags |-> <<"dinner", "15-min">>]

RiceBeans ==
    [title |-> "Rice & beans bowl", ingredients |-> <<"rice", "beans", "spices">>,
     steps |-> <<"Cook rice", "Warm beans", "Season and serve">>,
     tags |-> <<"budget", "vegan">>]

Quesadilla ==
    [title |-> "Cheesy quesadilla", ingredients |-> <<"tortilla", "cheese">>,
     steps |-> <<"Heat tortilla", "Melt cheese inside">>,
     tags |-> <<"snack", "kid-friendly">>]

PantryMix(ingredients) ==
    [title |-> "Pantry mix bowl", ingredients |-> ingredients,
     steps |-> <<"Combine ingredients you have and season to taste">>,
     tags |-> <<"creative">>]

\* the four "Simple rules", appended in source order
RuleSuggestions(have) ==
    (IF has(have, {W_eggs, W_bread}) THEN <<EggToast>> ELSE <<>>)
    \o (IF has(have, {W_pasta, W_tomato_sauce}) \/ has(have, {W_pasta, W_tomatoes})
        THEN <<SimplePasta>> ELSE <<>>)
    \o (IF has(have, {W_rice, W_beans}) THEN <<RiceBeans>> ELSE <<>>)
    \o (IF has(have, {W_tortilla, W_cheese}) THEN <<Quesadilla>> ELSE <<>>)

Min(a, b) == IF a < b THEN a ELSE b

\* every value list(have)[:5] can take: a set iterates in an arbitrary order
ListHead5(have) ==
    LET n == Min(5, Cardinality(have))
    IN  {s \in [1..n -> have] : \A a, b \in 1..n : a # b => s[a] # s[b]}

\* GET /api/suggest-meals
suggest_meals(fail) ==
    LET r == get_documents(db, "pantryitem", None, fail)
        calls == <<r.call>>
    IN  /\ IF r.ok
           THEN LET have == Have(r.docs)
                    rules == RuleSuggestions(have)
                IN  IF rules = <<>> /\ have # {}
                    THEN \E ingredients \in ListHead5(have) :
                            resp' = Response("suggest", <<>>, 200,
                                        [suggestions |-> <<PantryMix(ingredients)>>],
                                        "", calls, NoTrace)
                    ELSE resp' = Response("suggest", <<>>, 200,
                                          [suggestions |-> rules], "", calls, NoTrace)
           ELSE resp' = Response("suggest", <<>>, 500, <<>>, r.err, calls, NoTrace)
        /\ UNCHANGED <<db, next_id, issued>>

----------------------------------------------------------------------------
(* Schedule generation *)

W_morning == <<"m","o","r","n","i","n","g">>

W_afternoon == <<"a","f","t","e","r","n","o","o","n">>

W_evening == <<"e","v","e","n","i","n","g">>

T_0900 == <<"0","9",":","0","0">>

T_1800 == <<"1","8",":","0","0">>

\* class ScheduleRequest
ScheduleRequest(start_time, end_time, break_every_minutes, break_minutes) ==
    [start_time |-> start_time, end_time |-> end_time,
     break_every_minutes |-> break_every_minutes,
     break_minutes |-> break_minutes]

\* ScheduleRequest()
DefaultRequest == ScheduleRequest(Some(T_0900), Some(T_1800), 90, 10)

Digits == <<"0","1","2","3","4","5","6","7","8","9">>

IsDigit(c) == \E k \in 1..10 : Digits[k] = c

DigitValue(c) == (CHOOSE k \in 1..10 : Digits[k] = c) - 1

\* s.split(":")
RECURSIVE Split(_)
Split(s) ==
    IF \A k \in 1..Len(s) : s[k] # ":" THEN <<s>>
    ELSE LET p == CHOOSE k \in 1..Len(s) :
                    s[k] = ":" /\ \A j \in 1..(k - 1) : s[j] # ":"
         IN  <<SubSeq(s, 1, p - 1)>> \o Split(SubSeq(s, p + 1, Len(s)))

RECURSIVE DecimalValue(_)
DecimalValue(x) ==
    IF x = <<>> THEN 0
    ELSE 10 * DecimalValue(SubSeq(x, 1, Len(x) - 1)) + DigitValue(x[Len(x)])

IsDecimal(x) == x # <<>> /\ \A k \in 1..Len(x) : IsDigit(x[k])

\* int(x) for an optionally signed string of decimal digits; anything else
\* raises ValueError
ParseInt(x) ==
    IF IsDecimal(x) THEN [ok |-> TRUE, v |-> DecimalValue(x)]
    ELSE IF x # <<>> /\ x[1] = "+" /\ IsDecimal(Tail(x))
    THEN [ok |-> TRUE, v |-> DecimalValue(Tail(x))]
    ELSE IF x # <<>> /\ x[1] = "-" /\ IsDecimal(Tail(x))
    THEN [ok |-> TRUE, v |-> 0 - DecimalValue(Tail(x))]
    ELSE [ok |-> FALSE, err |-> "invalid literal for int() with base 10"]

\* parse_hhmm(s): minutes after today's midnight, or the exception raised
parse_hhmm(s) ==
    LET parts == Split(s)
        ints == [k \in 1..Len(parts) |-> ParseInt(parts[k])]
    IN  IF \E k \in 1..Len(ints) : ~ints[k].ok
        THEN [ok |-> FALSE, err |-> "invalid literal for int() with base 10"]
        ELSE IF Len(ints) < 2
        THEN [ok |-> FALSE, err |-> "not enough values to unpack"]
        ELSE IF Len(ints) > 2
        THEN [ok |-> FALSE, err |-> "too many values to unpack"]
        ELSE IF ints[1].v < 0 \/ ints[1].v > 23
        THEN [ok |-> FALSE, err |-> "hour must be in 0..23"]
        ELSE IF ints[2].v < 0 \/ ints[2].v > 59
        THEN [ok |-> FALSE, err |-> "minute must be in 0..59"]
        ELSE [ok |-> TRUE, v |-> 60 * ints[1].v + ints[2].v]

\* (req.start_time or "09:00")
OrTime(x, default) == IF x = None \/ x[1] = <<>> THEN default ELSE x[1]

\* datetime.isoformat(), as <<day, hour, minute>> relative to today
isoformat(m) == <<m \div 1440, (m % 1440) \div 60, m % 60>>

\* a key of the priority alone
task_sort_key_PriorityOnly(t) == <<Get(t, "priority", 3)>>

\* task_sort_key(t)
task_sort_key(t) ==
    <<Get(t, "priority", 3), OrInt(Get(t, "estimated_minutes", Some(30)), 30)>>

\* tasks_sorted = sorted(tasks, key=task_sort_key)
SortTasks(tasks) ==
    sorted([k \in 1..Len(tasks) |-> <<task_sort_key(tasks[k]), tasks[k]>>])

\* preferred_time compared as stored, not lower-cased
RoutineAnchor_CaseSensitive(r) ==
    LET preferred == OrStr(Get(r, "preferred_time", None))
    IN  IF preferred = W_morning THEN 9 * 60
        ELSE IF preferred = W_afternoon THEN 13 * 60
        ELSE IF preferred = W_evening THEN 18 * 60
        ELSE 10 * 60

\* the anchor of a routine's reminder, in minutes after midnight
RoutineAnchor(r) ==
    LET preferred == Lower(OrStr(Get(r, "preferred_time", None)))
    IN  IF preferred = W_morning THEN 9 * 60
        ELSE IF preferred = W_afternoon THEN 13 * 60
        ELSE IF preferred = W_evening THEN 18 * 60
        ELSE 10 * 60

\* one entry of routine_blocks
RoutineBlock(r) ==
    [title |-> <<"Routine: ", Get(r, "name", "Routine")>>,
     start |-> isoformat(RoutineAnchor(r)),
     end |-> isoformat(RoutineAnchor(r) + 15),
     type |-> "routine"]

RoutineBlocks(routines) == [k \in 1..Len(routines) |-> RoutineBlock(routines[k])]

TaskBlock(t, cursor, block_end) ==
    [title |-> Get(t, "title", "Task"), start |-> isoformat(cursor),
     end |-> isoformat(block_end), type |-> "task",
     priority |-> Get(t, "priority", 3)]

BreakBlock(cursor, b_end) ==
    [title |-> "Break", start |-> isoformat(cursor), end |-> isoformat(b_end),
     type |-> "break"]

\* the locals the while loop updates
Locals(cursor, blocks, minutes_since_break, i) ==
    [cursor |-> cursor, blocks |-> blocks,
     minutes_since_break |-> minutes_since_break, i |-> i]

\* a break only once the counter exceeds break_every_minutes
AfterTask_Strict(cursor, blocks, minutes_since_break, i, end, req) ==
    IF minutes_since_break > req.break_every_minutes
    THEN LET b_end == cursor + req.break_minutes
         IN  IF b_end <= end
             THEN Locals(b_end, Append(blocks, BreakBlock(cursor, b_end)), 0, i + 1)
             ELSE Locals(cursor, blocks, 0, i + 1)
    ELSE Locals(cursor, blocks, minutes_since_break, i + 1)

\* the counter reset only when the break was emitted
AfterTask_ResetOnFit(cursor, blocks, minutes_since_break, i, end, req) ==
    IF minutes_since_break >= req.break_every_minutes
    THEN LET b_end == cursor + req.break_minutes
         IN  IF b_end <= end
             THEN Locals(b_end, Append(blocks, BreakBlock(cursor, b_end)), 0, i + 1)
             ELSE Locals(cursor, blocks, minutes_since_break, i + 1)
    ELSE Locals(cursor, blocks, minutes_since_break, i + 1)

\* the cursor left at the break's start
AfterTask_CursorStays(cursor, blocks, minutes_since_break, i, end, req) ==
    IF minutes_since_break >= req.break_every_minutes
    THEN LET b_end == cursor + req.break_minutes
         IN  IF b_end <= end
             THEN Locals(cursor, Append(blocks, BreakBlock(cursor, b_end)), 0, i + 1)
             ELSE Locals(cursor, blocks, 0, i + 1)
    ELSE Locals(cursor, blocks, minutes_since_break, i + 1)

\* the break bookkeeping that follows an emitted task block
AfterTask(cursor, blocks, minutes_since_break, i, end, req) ==
    IF minutes_since_break >= req.break_every_minutes
    THEN LET b_end == cursor + req.break_minutes
         IN  IF b_end <= end
             THEN Locals(b_end, Append(blocks, BreakBlock(cursor, b_end)), 0, i + 1)
             ELSE Locals(cursor, blocks, 0, i + 1)
    ELSE Locals(cursor, blocks, minutes_since_break, i + 1)

\* one pass through the loop body; broke: the body left through "break"
LoopBody(L, tasks_sorted, end, req) ==
    LET t == tasks_sorted[L.i + 1]
        est == OrInt(Get(t, "estimated_minutes", Some(30)), 30)
        block_end == L.cursor + est
    IN  IF block_end > end
        THEN [broke |-> TRUE, L |-> L]
        ELSE [broke |-> FALSE,
              L |-> AfterTask(block_end,
                              Append(L.blocks, TaskBlock(t, L.cursor, block_end)),
                              L.minutes_since_break + est, L.i, end, req)]

\* while cursor < end and i < len(tasks_sorted): the locals at the head of
\* every pass, the last entry being the locals the loop ends with
RECURSIVE WhileLoop(_, _, _, _)
WhileLoop(L, tasks_sorted, end, req) ==
    IF L.cursor < end /\ L.i < Len(tasks_sorted)
    THEN LET r == LoopBody(L, tasks_sorted, end, req)
         IN  IF r.broke THEN <<L>>
             ELSE <<L>> \o WhileLoop(r.L, tasks_sorted, end, req)
    ELSE <<L>>

\* the routine blocks put in front of the loop's blocks before sorting
SortBlocks_RoutinesFirst(blocks, routine_blocks) ==
    LET all == routine_blocks \o blocks
    IN  sorted([k \in 1..Len(all) |-> <<all[k].start, all[k]>>])

\* blocks.extend(routine_blocks); sorted(blocks, key=lambda x: x["start"])
SortBlocks(blocks, routine_blocks) ==
    LET all == blocks \o routine_blocks
    IN  sorted([k \in 1..Len(all) |-> <<all[k].start, all[k]>>])

\* the body of generate_schedule; fail: which gateway call raises (0: none)
Schedule(op, req, fail) ==
    LET start == parse_hhmm(OrTime(req.start_time, T_0900))
        end == parse_hhmm(OrTime(req.end_time, T_1800))
        tasks == get_documents(db, "task", None, fail = 1)
        routines == get_documents(db, "routine", None, fail = 2)
    IN  IF ~start.ok
        THEN Response(op, req, 500, <<>>, start.err, <<>>, NoTrace)
        ELSE IF ~end.ok
        THEN Response(op, req, 500, <<>>, end.err, <<>>, NoTrace)
        ELSE IF ~tasks.ok
        THEN Response(op, req, 500, <<>>, tasks.err, <<tasks.call>>, NoTrace)
        ELSE IF ~routines.ok
        THEN Response(op, req, 500, <<>>, routines.err,
                      <<tasks.call, routines.call>>, NoTrace)
        ELSE LET tasks_sorted == SortTasks(tasks.docs)
                 trace == WhileLoop(Locals(start.v, <<>>, 0, 0), tasks_sorted,
                                    end.v, req)
                 blocks == trace[Len(trace)].blocks
             IN  Response(op, req, 200,
                          [date |-> <<0>>,
                           blocks |-> SortBlocks(blocks, RoutineBlocks(routines.docs))],
                          "", <<tasks.call, routines.call>>, trace)

\* POST /api/schedule
generate_schedule(req, fail) ==
    /\ resp' = Schedule("schedule", req, fail)
    /\ UNCHANGED <<db, next_id, issued>>

\* GET /api/schedule
get_schedule_default(fail) ==
    /\ resp' = Schedule("schedule_default", DefaultRequest, fail)
    /\ UNCHANGED <<db, next_id, issued>>

----------------------------------------------------------------------------
(* The service: every endpoint over one database *)

NoResponse == Response("none", <<>>, 0, <<>>, "", <<>>, NoTrace)

EmptyStore == [c \in MODEL_TO_COLLECTION |-> <<>>]

W_Eggs == <<"E","g","g","s">>

W_Evening == <<"E","v","e","n","i","n","g">>

W_milk == <<"m","i","l","k">>

\* POST /api/tasks: the framework validates the body, then calls create_item
post_task(body, fail) ==
    LET v == Task(body)
    IN  IF v.ok THEN create_item("task", body, v.item, fail)
        ELSE /\ resp' = Response("create", [collection |-> "task", body |-> body],
                                 422, <<>>, "validation error", <<>>, NoTrace)
             /\ UNCHANGED <<db, next_id, issued>>

\* one validated record per kind other than Task
Item(collection) ==
    CASE collection = "routine" ->
            [name |-> "R", steps |-> <<>>, preferred_time |-> Some(W_Evening),
             days |-> <<"Mon", "Tue", "Wed", "Thu", "Fri">>]
      [] collection = "pantryitem" ->
            [name |-> W_Eggs, quantity |-> None, category |-> None]
      [] collection = "meal" ->
            [title |-> "M", ingredients |-> <<"x">>, steps |-> None, tags |-> <<>>]
      [] collection = "bill" ->
            [name |-> "B", amount |-> 10, due_day |-> 1, autopay |-> FALSE]
      [] collection = "subscription" ->
            [name |-> "S", amount |-> 10, cycle |-> "monthly", next_renewal |-> None]
      [] collection = "shoppinglistitem" ->
            [name |-> "L", needed_for |-> None, quantity |-> None]
      [] collection = "checkin" ->
            [date |-> <<0>>, mood |-> None, energy |-> Some(5), notes |-> None]
      [] collection = "user" ->
            [name |-> "U", email |-> "a@b.com", timezone |-> None]

ApiTaskBodies ==
    {[title |-> JStr("A"), priority |-> JInt(1), estimated_minutes |-> JInt(60)],
     [title |-> JStr("B"), priority |-> JInt(9)]}

Limits == {None, Some(1)}

T_1030 == <<"1","0",":","3","0">>

T_9 == <<"9">>

T_2500 == <<"2","5",":","0","0">>

T_ab00 == <<"a","b",":","0","0">>

T_1_2_3 == <<"1",":","2",":","3">>

ApiRequests ==
    {ScheduleRequest(None, Some(<<>>), 90, 10),
     ScheduleRequest(Some(T_0900), Some(T_1030), 90, 10),
     ScheduleRequest(Some(T_9), Some(T_1030), 90, 10),
     ScheduleRequest(Some(T_ab00), Some(T_1030), 90, 10),
     ScheduleRequest(Some(T_0900), Some(T_2500), 90, 10),
     ScheduleRequest(Some(T_0900), Some(T_1_2_3), 90, 10)}

Init ==
    /\ db = EmptyStore
    /\ next_id = 1
    /\ issued = {}
    /\ resp = NoResponse

PostTask ==
    \E body \in ApiTaskBodies, fail \in BOOLEAN :
        /\ next_id <= MaxDocs
        /\ post_task(body, fail)

CreateItem ==
    \E collection \in MODEL_TO_COLLECTION \ {"task"}, fail \in BOOLEAN :
        /\ next_id <= MaxDocs
        /\ create_item(collection, Item(collection), Item(collection), fail)

ListItems ==
    \E collection \in MODEL_TO_COLLECTION, limit \in Limits, fail \in BOOLEAN :
        list_items(collection, limit, fail)

SuggestMeals == \E fail \in BOOLEAN : suggest_meals(fail)

PostSchedule == \E req \in ApiRequests, fail \in 0..2 : generate_schedule(req, fail)

GetSchedule == \E fail \in 0..2 : get_schedule_default(fail)

Next ==
    \/ PostTask
    \/ CreateItem
    \/ ListItems
    \/ SuggestMeals
    \/ PostSchedule
    \/ GetSchedule

Spec == Init /\ [][Next]_vars

----------------------------------------------------------------------------
(* Properties of the create/list endpoints and of error handling *)

IsPrefix(a, b) == Len(a) <= Len(b) /\ \A k \in 1..Len(a) : a[k] = b[k]

ListedIds(body) == {body[k]["id"] : k \in {j \in 1..Len(body) : "id" \in DOMAIN body[j]}}

C1_Listed ==
    (resp.op = "list" /\ resp.status = 200) =>
        /\ \A k \in 1..Len(resp.body) : "_id" \notin DOMAIN resp.body[k]
        /\ resp.arg.limit = None =>
              \A p \in issued :
                  p[1] = resp.arg.collection => p[2] \in ListedIds(resp.body)

C1_Kept == \A c \in MODEL_TO_COLLECTION : IsPrefix(db[c], db'[c])

\* C1: every id a successful create returned is, from then on, the "id" of a
\* document in every successful unlimited list of the same resource, no listed
\* document carries "_id", and no request removes or changes a stored document.
C1_CreatedIsListed == [](C1_Listed) /\ [][C1_Kept]_vars

\* C1 witness: an unlimited list of a collection that shows two created ids,
\* the first of them created before another request was served.
C1_Witness ==
    /\ resp.op = "list" /\ resp.status = 200 /\ resp.arg.limit = None
    /\ Len(resp.body) = 2
    /\ Cardinality({p \in issued : p[1] = resp.arg.collection}) = 2
    /\ {p[2] : p \in issued} = ListedIds(resp.body)

Handlers == {"create", "list", "suggest", "schedule", "schedule_default"}

ScheduleOps == {"schedule", "schedule_default"}

StorageFailed == \E k \in 1..Len(resp.calls) : ~resp.calls[k].ok

ParseFailed ==
    /\ resp.op \in ScheduleOps
    /\ \/ ~parse_hhmm(OrTime(resp.arg.start_time, T_0900)).ok
       \/ ~parse_hhmm(OrTime(resp.arg.end_time, T_1800)).ok

ParseErrors ==
    {"invalid literal for int() with base 10", "not enough values to unpack",
     "too many values to unpack", "hour must be in 0..23",
     "minute must be in 0..59"}

\* C9: when a gateway call or a computation step of a handler fails, the
\* response is a 500 whose detail is the failure's text, it carries no id,
\* documents, suggestions or blocks, and the failed call was made once and was
\* the handler's last call.
C9_FailureIs500 ==
    (resp.op \in Handlers /\ resp.status # 422 /\ (StorageFailed \/ ParseFailed)) =>
        /\ resp.status = 500
        /\ resp.body = <<>>
        /\ resp.trace = NoTrace
        /\ StorageFailed => resp.detail = StorageError
        /\ ~StorageFailed => resp.detail \in ParseErrors
        /\ \A k \in 1..Len(resp.calls) : ~resp.calls[k].ok => k = Len(resp.calls)
        /\ \A j, k \in 1..Len(resp.calls) : resp.calls[j] = resp.calls[k] => j = k

\* C9 witness: the routine read failed after the task read succeeded, with
\* tasks and routines stored.
C9_Witness ==
    /\ resp.op = "schedule" /\ resp.status = 500
    /\ Len(resp.calls) = 2 /\ resp.calls[1].ok /\ ~resp.calls[2].ok
    /\ db["task"] # <<>> /\ db["routine"] # <<>>

\* C9 witness: a malformed start_time
C9_WitnessMalformed ==
    /\ resp.op = "schedule" /\ resp.status = 500
    /\ resp.arg.start_time = Some(T_ab00)

----------------------------------------------------------------------------
(* Task validation: POST /api/tasks over boundary bodies *)

\* a JSON body from optional members: <<>> leaves the member out
Body(title, priority, estimated_minutes) ==
    LET m == [title |-> title, priority |-> priority,
              estimated_minutes |-> estimated_minutes]
    IN  [k \in {j \in DOMAIN m : m[j] # <<>>} |-> m[k][1]]

TaskBodies ==
    {Body(t, p, e) :
        t \in {<<>>, <<JStr("A")>>},
        p \in {<<>>, <<JNull>>, <<JInt(0)>>, <<JInt(1)>>, <<JInt(5)>>, <<JInt(6)>>},
        e \in {<<>>, <<JNull>>, <<JInt(4)>>, <<JInt(5)>>, <<JInt(600)>>,
               <<JInt(601)>>}}

SubmitTask ==
    \E body \in TaskBodies, fail \in BOOLEAN :
        /\ Len(db["task"]) < MaxStored
        /\ post_task(body, fail)

ListTasks == list_items("task", None, FALSE)

NextTask ==
    \/ SubmitTask
    \/ ListTasks

SpecTask == Init /\ [][NextTask]_vars

TaskCreate == resp.op = "create" /\ resp.arg.collection = "task"

Omitted(body, k) == k \notin DOMAIN body

IntIn(body, k, lo, hi) ==
    k \in DOMAIN body /\ body[k].t = "int" /\ body[k].v >= lo /\ body[k].v <= hi

IsNull(body, k) == k \in DOMAIN body /\ body[k].t = "null"

PriorityOk(body) == Omitted(body, "priority") \/ IntIn(body, "priority", 1, 5)

TitleOk(body) == "title" \in DOMAIN body /\ body["title"].t = "str"

LastTask == db["task"][Len(db["task"])]

\* the defaults and the submitted values are what is stored
C2_Stored ==
    (TaskCreate /\ resp.status = 200) =>
        /\ LastTask.priority =
              (IF Omitted(resp.arg.body, "priority") THEN 3
               ELSE resp.arg.body["priority"].v)
        /\ LastTask.estimated_minutes =
              (IF Omitted(resp.arg.body, "estimated_minutes") THEN Some(30)
               ELSE IF IsNull(resp.arg.body, "estimated_minutes") THEN None
               ELSE Some(resp.arg.body["estimated_minutes"].v))

\* C2 as stated: a body is accepted only with an integer estimated_minutes
\* in 5..600 (or none, 30 applying), and every stored task has one.
C2_Original ==
    /\ (TaskCreate /\ resp.status # 422) =>
          /\ PriorityOk(resp.arg.body)
          /\ \/ Omitted(resp.arg.body, "estimated_minutes")
             \/ IntIn(resp.arg.body, "estimated_minutes", 5, 600)
    /\ \A k \in 1..Len(db["task"]) :
          /\ db["task"][k].priority \in 1..5
          /\ db["task"][k].estimated_minutes \in {Some(n) : n \in 5..600}

\* C2 (amended): Task validation accepts a body exactly when title is text,
\* priority is omitted (3 applies) or an integer in 1..5, and estimated_minutes
\* is omitted (30 applies), null, or an integer in 5..600; so every stored
\* task has priority in 1..5 and estimated_minutes null or in 5..600.
C2_TaskRanges ==
    /\ TaskCreate =>
          (resp.status # 422 <=>
              /\ TitleOk(resp.arg.body)
              /\ PriorityOk(resp.arg.body)
              /\ \/ Omitted(resp.arg.body, "estimated_minutes")
                 \/ IsNull(resp.arg.body, "estimated_minutes")
                 \/ IntIn(resp.arg.body, "estimated_minutes", 5, 600))
    /\ C2_Stored
    /\ \A k \in 1..Len(db["task"]) :
          /\ db["task"][k].priority \in 1..5
          /\ db["task"][k].estimated_minutes \in {None} \cup {Some(n) : n \in 5..600}

\* C2 witness: a body with priority 5 and a null estimated_minutes was stored
\* after a body with priority 6 could have been refused
C2_Witness ==
    /\ TaskCreate /\ resp.status = 200
    /\ IntIn(resp.arg.body, "priority", 5, 5)
    /\ IsNull(resp.arg.body, "estimated_minutes")
    /\ LastTask.estimated_minutes = None

----------------------------------------------------------------------------
(* Meal suggestions over drawn pantries *)

\* the documents a run of successful creates leaves in one collection
RECURSIVE StoreAll(_, _, _, _)
StoreAll(store, oid, collection, items) ==
    IF items = <<>> THEN store
    ELSE StoreAll(create_document(store, oid, collection, Head(items), FALSE).store,
                  oid + 1, collection, Tail(items))

IssuedFor(collection, first, n) == {<<collection, Str(first + k - 1)>> : k \in 1..n}

RECURSIVE Ascending(_)
Ascending(S) ==
    IF S = {} THEN <<>>
    ELSE LET m == CHOOSE x \in S : \A y \in S : x <= y
         IN  <<m>> \o Ascending(S \ {m})

PantryNames ==
    <<W_Eggs, W_eggs, W_bread, W_pasta, W_tomato_sauce, W_tomatoes, W_rice,
      W_beans, W_tortilla, W_cheese, W_milk>>

PantryItem(name) == [name |-> name, quantity |-> None, category |-> None]

InitSuggest ==
    \E S \in SUBSET (1..Len(PantryNames)) :
        /\ Cardinality(S) <= MaxPantry
        /\ LET idx == Ascending(S)
               items == [k \in 1..Len(idx) |-> PantryItem(PantryNames[idx[k]])]
           IN  /\ db = StoreAll(EmptyStore, 1, "pantryitem", items)
               /\ next_id = Len(items) + 1
               /\ issued = IssuedFor("pantryitem", 1, Len(items))
        /\ resp = NoResponse

\* the request is served once for each drawn pantry
SuggestFromPantry == resp = NoResponse /\ suggest_meals(FALSE)

NextSuggest == SuggestFromPantry

SpecSuggest == InitSuggest /\ [][NextSuggest]_vars

PantryLower == {Lower(db["pantryitem"][k].name) : k \in 1..Len(db["pantryitem"])}

RuleTitles == <<"Egg toast", "Simple pasta", "Rice & beans bowl", "Cheesy quesadilla">>

RuleMatches(n) ==
    CASE n = 1 -> W_eggs \in PantryLower /\ W_bread \in PantryLower
      [] n = 2 -> /\ W_pasta \in PantryLower
                  /\ (W_tomato_sauce \in PantryLower \/ W_tomatoes \in PantryLower)
      [] n = 3 -> W_rice \in PantryLower /\ W_beans \in PantryLower
      [] n = 4 -> W_tortilla \in PantryLower /\ W_cheese \in PantryLower

RECURSIVE MatchedTitles(_)
MatchedTitles(n) ==
    IF n = 0 THEN <<>>
    ELSE MatchedTitles(n - 1) \o (IF RuleMatches(n) THEN <<RuleTitles[n]>> ELSE <<>>)

SuggestedTitles ==
    [k \in 1..Len(resp.body.suggestions) |-> resp.body.suggestions[k].title]

\* C7: the suggestions are the matching rules' suggestions, once each in rule
\* order; or, when no rule matches a non-empty pantry, one "Pantry mix bowl"
\* of min(5, distinct lower-cased names) distinct lower-cased pantry names;
\* or nothing for an empty pantry.
C7_Suggestions ==
    (resp.op = "suggest" /\ resp.status = 200) =>
        IF MatchedTitles(4) # <<>>
        THEN SuggestedTitles = MatchedTitles(4)
        ELSE IF db["pantryitem"] # <<>>
        THEN /\ SuggestedTitles = <<"Pantry mix bowl">>
             /\ LET ing == resp.body.suggestions[1].ingredients
                IN  /\ Len(ing) = Min(5, Cardinality(PantryLower))
                    /\ \A k \in 1..Len(ing) : ing[k] \in PantryLower
                    /\ \A j, k \in 1..Len(ing) : ing[j] = ing[k] => j = k
        ELSE resp.body.suggestions = <<>>

\* C7 witness: six pantry items, two of them one name in two spellings, match
\* no rule and give a bowl of all five distinct names
C7_Witness ==
    /\ resp.op = "suggest" /\ resp.status = 200
    /\ Len(db["pantryitem"]) = 6
    /\ Cardinality(PantryLower) = 5
    /\ SuggestedTitles = <<"Pantry mix bowl">>
    /\ Len(resp.body.suggestions[1].ingredients) = 5

\* C7 witness: "Eggs" and "bread" with pasta and tomatoes give rules 1 and 2
C7_WitnessRules ==
    /\ resp.op = "suggest" /\ resp.status = 200
    /\ W_eggs \notin {db["pantryitem"][k].name : k \in 1..Len(db["pantryitem"])}
    /\ SuggestedTitles = <<"Egg toast", "Simple pasta">>

----------------------------------------------------------------------------
(* Schedule generation over drawn task and routine collections *)

Titles == <<"A", "B", "C", "D", "E">>

RoutineNames == <<"R1", "R2", "R3", "R4">>

\* <<priority, estimated_minutes>> of the drawn tasks
TaskChoices == {<<1, Some(60)>>, <<2, None>>, <<2, Some(5)>>}

RoutineChoices == {None, Some(W_Evening), Some(W_morning)}

SeqsUpTo(S, n) == UNION {[1..k -> S] : k \in 0..n}

TaskItem(k, c) ==
    [title |-> Titles[k], details |-> None, priority |-> c[1], due_date |-> None,
     estimated_minutes |-> c[2], category |-> None]

RoutineItem(k, c) ==
    [name |-> RoutineNames[k], steps |-> <<>>, preferred_time |-> c,
     days |-> <<"Mon", "Tue", "Wed", "Thu", "Fri">>]

T_1105 == <<"1","1",":","0","5">>

T_1200 == <<"1","2",":","0","0">>

SchedRequests ==
    {ScheduleRequest(Some(T_0900), Some(T_1200), 90, 10),
     ScheduleRequest(Some(T_0900), Some(T_1105), 90, 10),
     ScheduleRequest(Some(T_0900), Some(T_1105), 60, 10),
     ScheduleRequest(Some(T_0900), Some(T_1200), 60, 0),
     ScheduleRequest(Some(T_0900), Some(T_1200), 60, 0 - 10),
     ScheduleRequest(Some(T_1200), Some(T_1105), 90, 10),
     ScheduleRequest(Some(T_1200), Some(T_1200), 90, 10)}

InitSchedule ==
    \E ts \in SeqsUpTo(TaskChoices, MaxTasks), rs \in SeqsUpTo(RoutineChoices, MaxRoutines) :
        LET tasks == [k \in 1..Len(ts) |-> TaskItem(k, ts[k])]
            routines == [k \in 1..Len(rs) |-> RoutineItem(k, rs[k])]
        IN  /\ db = StoreAll(StoreAll(EmptyStore, 1, "task", tasks),
                             Len(ts) + 1, "routine", routines)
            /\ next_id = Len(ts) + Len(rs) + 1
            /\ issued = IssuedFor("task", 1, Len(ts))
                            \cup IssuedFor("routine", Len(ts) + 1, Len(rs))
            /\ resp = NoResponse

\* one request is served for each drawn database
PlanDay == resp = NoResponse /\ \E req \in SchedRequests : generate_schedule(req, 0)

PlanDefault == resp = NoResponse /\ get_schedule_default(0)

NextSchedule ==
    \/ PlanDay
    \/ PlanDefault

SpecSchedule == InitSchedule /\ [][NextSchedule]_vars

Scheduled == resp.op \in ScheduleOps /\ resp.status = 200

Minutes(iso) == 1440 * iso[1] + 60 * iso[2] + iso[3]

StartInstant == parse_hhmm(OrTime(resp.arg.start_time, T_0900)).v

EndInstant == parse_hhmm(OrTime(resp.arg.end_time, T_1800)).v

\* the task and break blocks in the order the loop appended them
Emitted == resp.trace[Len(resp.trace)].blocks

EmittedTasks == SelectSeq(Emitted, LAMBDA b : b.type = "task")

Duration(b) == Minutes(b.end) - Minutes(b.start)

EffPriority(t) == IF "priority" \in DOMAIN t THEN t.priority ELSE 3

EffMinutes(t) ==
    IF "estimated_minutes" \notin DOMAIN t THEN 30
    ELSE IF t.estimated_minutes = None THEN 30
    ELSE IF t.estimated_minutes[1] = 0 THEN 30
    ELSE t.estimated_minutes[1]

KeyLeq(a, b) ==
    \/ EffPriority(a) < EffPriority(b)
    \/ EffPriority(a) = EffPriority(b) /\ EffMinutes(a) <= EffMinutes(b)

Orders(n) == {f \in [1..n -> 1..n] : \A a, b \in 1..n : f[a] = f[b] => a = b}

\* where the cursor stood when the loop ended
FinalCursor == IF Emitted = <<>> THEN StartInstant ELSE Minutes(Emitted[Len(Emitted)].end)

\* C3: the task blocks are, in order, a prefix of the stored tasks sorted
\* ascending by (priority, estimated_minutes); the first task of that order
\* whose block would end after the end instant gets no block, and neither does
\* any task after it.
C3_SortedPrefix ==
    Scheduled =>
        LET tasks == db["task"]
            got == EmittedTasks
            n == Len(got)
            cursor == FinalCursor
            last == EndInstant
        IN  \E f \in Orders(Len(tasks)) :
                /\ \A k \in 1..(Len(tasks) - 1) : KeyLeq(tasks[f[k]], tasks[f[k + 1]])
                /\ n <= Len(tasks)
                /\ \A k \in 1..n :
                      /\ got[k].title = tasks[f[k]].title
                      /\ got[k].priority = EffPriority(tasks[f[k]])
                      /\ Duration(got[k]) = EffMinutes(tasks[f[k]])
                      /\ Minutes(got[k].end) <= last
                /\ n < Len(tasks) =>
                      cursor + EffMinutes(tasks[f[n + 1]]) > last

\* C3 witness: a task was dropped although a task later in the order, short
\* enough for the rest of the window, is stored
C3_Witness ==
    /\ Scheduled
    /\ Len(EmittedTasks) = 1
    /\ Len(db["task"]) = 3
    /\ \E k \in 1..3 : /\ FinalCursor + EffMinutes(db["task"][k]) <= EndInstant
                       /\ \A j \in 1..Len(EmittedTasks) :
                             EmittedTasks[j].title # db["task"][k].title

BreakEvery == resp.arg.break_every_minutes

BreakMinutes == resp.arg.break_minutes

\* minutes of task blocks since the counter was last reset, after task block k
RECURSIVE CounterAfter(_)
CounterAfter(k) ==
    IF k = 0 THEN 0
    ELSE (IF CounterAfter(k - 1) >= BreakEvery THEN 0 ELSE CounterAfter(k - 1))
            + Duration(EmittedTasks[k])

\* how many task blocks Emitted[1..j] holds
TasksUpTo(j) == Cardinality({k \in 1..j : Emitted[k].type = "task"})

BreakFollows(j) == j < Len(Emitted) /\ Emitted[j + 1].type = "break"

\* C4: a "Break" block follows a task block exactly when the minutes of task
\* blocks since the last reset reached break_every_minutes and the task's end
\* plus break_minutes is not after the end instant; it spans from the task's
\* end to that end plus break_minutes, and the next task starts at its end.
C4_BreakExactlyWhenDue ==
    Scheduled =>
        \A j \in 1..Len(Emitted) :
            /\ Emitted[j].type = "break" => j > 1 /\ Emitted[j - 1].type = "task"
            /\ Emitted[j].type = "task" =>
                  LET task_end == Minutes(Emitted[j].end)
                  IN  /\ BreakFollows(j) <=>
                            /\ CounterAfter(TasksUpTo(j)) >= BreakEvery
                            /\ task_end + BreakMinutes <= EndInstant
                      /\ BreakFollows(j) =>
                            /\ Emitted[j + 1].title = "Break"
                            /\ Minutes(Emitted[j + 1].start) = task_end
                            /\ Minutes(Emitted[j + 1].end) = task_end + BreakMinutes
                            /\ j + 2 <= Len(Emitted) =>
                                  /\ Emitted[j + 2].type = "task"
                                  /\ Emitted[j + 2].start = Emitted[j + 1].end

BlockTimes(b) == <<b.type, Minutes(b.start), Minutes(b.end)>>

\* C4 witness: two 60-minute tasks, break_every_minutes 90, break_minutes 10,
\* 09:00-12:00: task 09:00-10:00, task 10:00-11:00, break 11:00-11:10
C4_Witness ==
    /\ Scheduled
    /\ BreakEvery = 90 /\ BreakMinutes = 10
    /\ StartInstant = 540 /\ EndInstant = 720
    /\ [k \in 1..Len(Emitted) |-> BlockTimes(Emitted[k])]
          = <<(<<"task", 540, 600>>), (<<"task", 600, 660>>), (<<"break", 660, 670>>)>>

\* the task block appended by the pass that starts with trace entry k
PassTask(k) == resp.trace[k + 1].blocks[Len(resp.trace[k].blocks) + 1]

BreakDue(k) ==
    resp.trace[k].minutes_since_break + Duration(PassTask(k)) >= BreakEvery

BreakDropped(k) ==
    BreakDue(k) /\ Minutes(PassTask(k).end) + BreakMinutes > EndInstant

\* C5: when a break is due but does not fit, the pass appends no break block,
\* leaves the cursor at the task block's end, where the next task block (if
\* any) starts, and still resets the minutes-since-last-break counter to 0.
C5_DroppedBreakResets ==
    Scheduled =>
        \A k \in 1..(Len(resp.trace) - 1) :
            BreakDropped(k) =>
                /\ Len(resp.trace[k + 1].blocks) = Len(resp.trace[k].blocks) + 1
                /\ resp.trace[k + 1].cursor = Minutes(PassTask(k).end)
                /\ resp.trace[k + 1].minutes_since_break = 0
                /\ k + 2 <= Len(resp.trace) =>
                      /\ PassTask(k + 1).type = "task"
                      /\ PassTask(k + 1).start = PassTask(k).end
                      /\ resp.trace[k + 2].minutes_since_break
                            = (IF Duration(PassTask(k + 1)) >= BreakEvery THEN 0
                               ELSE Duration(PassTask(k + 1)))

\* C5 witness: a break was dropped after 120 accumulated minutes and a task
\* block followed it
C5_Witness ==
    /\ Scheduled
    /\ \E k \in 1..(Len(resp.trace) - 2) :
          /\ BreakDropped(k)
          /\ resp.trace[k].minutes_since_break > 0
          /\ resp.trace[k + 2].minutes_since_break < BreakEvery

Blocks == resp.body.blocks

RoutineBlocksOut == SelectSeq(Blocks, LAMBDA b : b.type = "routine")

\* the anchor the lower-cased preferred_time stands for
AnchorOf(r) ==
    LET p == IF r.preferred_time = None THEN <<>> ELSE Lower(r.preferred_time[1])
    IN  CASE p = W_morning -> 540
          [] p = W_afternoon -> 780
          [] p = W_evening -> 1080
          [] OTHER -> 600

Reminder(r) == <<r.name, AnchorOf(r), AnchorOf(r) + 15>>

ReminderOut(b) == <<b.title[2], Minutes(b.start), Minutes(b.end)>>

Count(seq, x) == Cardinality({k \in 1..Len(seq) : seq[k] = x})

\* C6: the response holds exactly one "routine" block per stored routine, 15
\* minutes long from the anchor of its lower-cased preferred_time, whatever
\* the window and the task and break blocks are.
C6_RoutineReminders ==
    Scheduled =>
        LET want == [k \in 1..Len(db["routine"]) |-> Reminder(db["routine"][k])]
            got == [k \in 1..Len(RoutineBlocksOut) |-> ReminderOut(RoutineBlocksOut[k])]
        IN  /\ Len(got) = Len(want)
            /\ \A k \in 1..Len(want) : Count(got, want[k]) = Count(want, want[k])

\* C6 witness: "Evening" gives 18:00-18:15 although the window ended at 11:05,
\* and a "morning" reminder overlaps a task block
C6_Witness ==
    /\ Scheduled
    /\ EndInstant = 665
    /\ \E k \in 1..Len(db["routine"]) :
          /\ db["routine"][k].preferred_time = Some(W_Evening)
          /\ \E j \in 1..Len(Blocks) :
                /\ Blocks[j].type = "routine"
                /\ ReminderOut(Blocks[j]) = <<db["routine"][k].name, 1080, 1095>>
    /\ \E i, j \in 1..Len(Blocks) :
          /\ Blocks[i].type = "task" /\ Blocks[j].type = "routine"
          /\ Blocks[i].start = Blocks[j].start

\* C6 witness: start_time after end_time, tasks stored, reminders only
C6_WitnessEmptyWindow ==
    /\ Scheduled
    /\ StartInstant > EndInstant
    /\ db["task"] # <<>>
    /\ Len(Blocks) = 2
    /\ \A k \in 1..Len(Blocks) : Blocks[k].type = "routine"

StartsOf(seq) == {seq[k].start : k \in 1..Len(seq)}

At(seq, start) == SelectSeq(seq, LAMBDA b : b.start = start)

\* the routine blocks in fetch order
RemindersInOrder ==
    [k \in 1..Len(db["routine"]) |->
        [title |-> <<"Routine: ", db["routine"][k].name>>,
         start |-> isoformat(AnchorOf(db["routine"][k])),
         end |-> isoformat(AnchorOf(db["routine"][k]) + 15),
         type |-> "routine"]]

\* C8: the blocks are in non-decreasing order of start; blocks with one start
\* are the task and break blocks in emission order, then the routine blocks
\* in fetch order.
C8_StableByStart ==
    Scheduled =>
        LET out == Blocks
            loop == Emitted
            reminders == RemindersInOrder
        IN  /\ \A k \in 1..(Len(out) - 1) :
                  Minutes(out[k].start) <= Minutes(out[k + 1].start)
            /\ Len(out) = Len(loop) + Len(db["routine"])
            /\ \A st \in StartsOf(out) \cup StartsOf(loop) \cup StartsOf(reminders) :
                  At(out, st) = At(loop, st) \o At(reminders, st)

\* C8 witness: the loop emitted a block that starts before an earlier one,
\* two blocks of the loop and two reminders share a start
C8_Witness ==
    /\ Scheduled
    /\ \E k \in 1..(Len(Emitted) - 1) :
          Minutes(Emitted[k + 1].start) < Minutes(Emitted[k].start)
    /\ \E st \in StartsOf(Blocks) :
          /\ Len(At(Emitted, st)) >= 1
          /\ Len(At(RemindersInOrder, st)) = 2

\* C8 witness: a zero-length break and the task after it share a start
C8_WitnessTie ==
    /\ Scheduled
    /\ \E k \in 1..(Len(Blocks) - 1) :
          /\ Blocks[k].type = "break" /\ Blocks[k + 1].type = "task"
          /\ Blocks[k].start = Blocks[k + 1].start

\* C10: with break_minutes >= 0 (and stored tasks of at least a minute) the
\* task and break blocks form a chain from the start instant: each block
\* starts where the one before it ended, none ends before it starts, and the
\* last ends by the end instant; a window with start >= end holds none.
C10_GapFreeChain ==
    (Scheduled /\ BreakMinutes >= 0
        /\ \A k \in 1..Len(db["task"]) : EffMinutes(db["task"][k]) >= 1) =>
        LET loop == Emitted
            first == StartInstant
            last == EndInstant
        IN  /\ loop # <<>> => Minutes(loop[1].start) = first
            /\ \A k \in 1..Len(loop) :
                  /\ Minutes(loop[k].start) <= Minutes(loop[k].end)
                  /\ Minutes(loop[k].end) <= last
                  /\ k > 1 => loop[k].start = loop[k - 1].end
            /\ first >= last =>
                  /\ loop = <<>>
                  /\ \A k \in 1..Len(Blocks) : Blocks[k].type = "routine"

\* C10 witness: a chain of task, break, task with a break of ten minutes
C10_Witness ==
    /\ Scheduled
    /\ BreakMinutes = 10
    /\ Len(Emitted) >= 3
    /\ Emitted[1].type = "task" /\ Emitted[2].type = "break"
    /\ Emitted[3].type = "task"

\* C10 witness: start_time = end_time with three tasks stored
C10_WitnessEmptyWindow ==
    /\ Scheduled
    /\ StartInstant = EndInstant
    /\ Len(db["task"]) = 3
    /\ Emitted = <<>>

====
